---- MODULE Spec2Model ----
(***************************************************************************)
(* Model of package tracing: the tracer initializer (InitTracer) and the   *)
(* request tracing middleware, in its two variants:                        *)
(*   "jaeger"  src/tracing.go        InitTracer, Middleware                *)
(*   "otlp"    src/unnamed/part_000  InitTracer, StartSpan, HTTPMiddleware *)
(* A span is modelled by the calls the middleware makes on it (Start,      *)
(* SetAttributes, End) together with the provider that produced it.        *)
(***************************************************************************)
EXTENDS Integers, Sequences, FiniteSets, TLC

\* ---------------------------------------------------------------- bounds
MaxInitCalls == 2    \* calls of InitTracer in one run
MaxHandlerOps == 2   \* response-writer calls the wrapped handler makes
MaxElapsedMs == 1    \* largest elapsed time time.Since(start) reports

\* the goroutines serving inbound requests concurrently, in order of arrival
Reqs == {1, 2}

\* ------------------------------------------------------- program values
NoSpan == 0          \* a context that carries no span
RemoteParent == 100  \* a span already present in the incoming context
StatusOK == 200      \* http.StatusOK, the implicit status of a first Write
NoProvider == 0      \* the default (delegating, no-op) global provider

Variants == {"jaeger", "otlp"}
\* the service names passed to InitTracer, one per call: every call of a run
\* passes a name no earlier call passed
ServiceNames == <<"svcA", "svcB", "svcC", "svcD">>
TornName == "torn"   \* a string header read while it was being written

\* The requests the server may receive (r.Method, r.URL.Path, r.URL.RawQuery,
\* the request id put in the context upstream, r.RemoteAddr, and the span
\* already carried by r.Context()).
Requests ==
  { [Method |-> "GET", Path |-> "/orders/42", RawQuery |-> "",
     ReqID |-> "abc-123", RemoteAddr |-> "10.0.0.5:1234", CtxSpan |-> NoSpan],
    [Method |-> "GET", Path |-> "/orders/7", RawQuery |-> "page=2",
     ReqID |-> "", RemoteAddr |-> "10.0.0.6:99", CtxSpan |-> RemoteParent] }

NoRequest == [Method |-> "", Path |-> "", RawQuery |-> "", ReqID |-> "",
              RemoteAddr |-> "", CtxSpan |-> NoSpan]

VARIABLES
  variant,        \* which of the two packages the process uses
  serviceName,    \* package-level var serviceName (otlp variant)
  globalProvider, \* otel's registered global TracerProvider (0 = default)
  delegate,       \* the provider the default provider delegates to (0 = none)
  provRes,        \* provRes[p] = service.name resource of provider p
  initPc,         \* position of the thread running InitTracer
  initArg,        \* its serviceName / serviceNameParam argument
  initCalls,      \* number of InitTracer calls begun
  initPre,        \* process-wide state at the entry of the current/last call
  initResult,     \* how the last call ended: "none", "ok", "panic"
  initNames,      \* arguments of the calls that returned, in order
  wrapped,        \* has Middleware/HTTPMiddleware(next) been called
  mwTracer,       \* provider the tracer captured by Middleware came from
  wrapGen,        \* number of returned InitTracer calls when it was wrapped
  pc,             \* pc[r]: position of the goroutine serving request r
  req,            \* req[r]: the request
  span,           \* span[r]: the span of request r
  nStarted,       \* nStarted[r]: spans started by the middleware for r
  nEnded,         \* nEnded[r]: End calls of the middleware for r
  resp,           \* resp[r]: the wrapping writer ww and the underlying w
  bare,           \* bare[r]: w as it would be had the handler written to it
  hcalls,         \* hcalls[r]: invocations of next.ServeHTTP
  hctx,           \* hctx[r]: span carried by the context given to the handler
  child           \* child[r]: the span the handler started from its context

initVars == <<serviceName, globalProvider, delegate, provRes, initPc, initArg,
              initCalls, initPre, initResult, initNames>>
wrapVars == <<wrapped, mwTracer, wrapGen>>
reqVars == <<pc, req, span, nStarted, nEnded, resp, bare, hcalls, hctx, child>>
vars == <<variant, initVars, wrapVars, reqVars>>

\* ------------------------------------------------------------- helpers
Keys4 == {"http.method", "http.target", "http.request_id", "http.client_ip"}
Keys2 == {"http.status_code", "http.duration_ms"}

NoAttrs == [k \in {} |-> 0]

NoSpanRec == [name |-> "", attrs |-> NoAttrs, prov |-> NoProvider,
              tracerName |-> "", parent |-> NoSpan, gen |-> 0,
              started |-> FALSE, ended |-> FALSE]

NoChild == [started |-> FALSE, parent |-> NoSpan, parentOpen |-> FALSE]

NewWriter == [status |-> 0, wroteHeader |-> FALSE]
NewResp == [ww |-> [code |-> 0, wroteHeader |-> FALSE], w |-> NewWriter]

\* span.SetAttributes(kv...): later values replace earlier ones; a span that
\* has ended ignores the call.
SetAttributes(s, kv) ==
  IF s.ended THEN s
  ELSE [s EXCEPT !.attrs = [k \in (DOMAIN kv) \cup (DOMAIN s.attrs) |->
                              IF k \in DOMAIN kv THEN kv[k] ELSE s.attrs[k]]]

\* http.ResponseWriter.WriteHeader / Write of the server's writer: the first
\* header written wins, a Write with no header writes 200 first.
UnderWriteHeader(u, code) ==
  IF u.wroteHeader THEN u ELSE [status |-> code, wroteHeader |-> TRUE]

UnderWrite(u) == UnderWriteHeader(u, StatusOK)

\* middleware.NewWrapResponseWriter(w, r.ProtoMajor): WriteHeader
WrapWriteHeaderAltered(rs, code) ==
  IF rs.ww.wroteHeader THEN rs
  ELSE [ww |-> [code |-> code, wroteHeader |-> TRUE],
        w |-> UnderWriteHeader(rs.w, StatusOK)]

WrapWriteHeader(rs, code) ==
  IF rs.ww.wroteHeader THEN rs
  ELSE [ww |-> [code |-> code, wroteHeader |-> TRUE],
        w |-> UnderWriteHeader(rs.w, code)]

\* ... and Write: writes the 200 header if none was written, then forwards.
WrapWrite(rs) ==
  LET h == WrapWriteHeader(rs, StatusOK)
  IN  [h EXCEPT !.w = UnderWrite(h.w)]

\* ww.Status()
WrapStatus(rs) == rs.ww.code

\* r.Method+" "+r.URL.Path
SpanNameWithQuery(q) ==
  q.Method \o " " \o q.Path \o (IF q.RawQuery = "" THEN "" ELSE "?" \o q.RawQuery)

SpanName(q) == q.Method \o " " \o q.Path

\* the four attributes set before the handler runs
CommonAttributes(q) ==
  [k \in Keys4 |->
     CASE k = "http.method" -> q.Method
       [] k = "http.target" -> q.Path
       [] k = "http.request_id" -> q.ReqID
       [] k = "http.client_ip" -> q.RemoteAddr]

\* the two attributes set after the handler returned
StatusAttributes(rs, ms) ==
  [k \in Keys2 |-> IF k = "http.status_code" THEN WrapStatus(rs) ELSE ms]

\* otel.Tracer(name): the tracer of the registered global provider
OtelTracer == globalProvider

\* tracer.Start: a tracer of the default provider forwards to the provider the
\* default provider was delegated to (set by the first SetTracerProvider)
TracerProvider(t) == IF t = NoProvider THEN delegate ELSE t

\* the tracer a request of the middleware starts its span with: Middleware
\* captured it when it wrapped the handler, StartSpan asks for it each time
RequestTracerCached == mwTracer

RequestTracer == IF variant = "jaeger" THEN mwTracer ELSE OtelTracer

\* the span carried by the context the wrapped handler is given
HandlerCtxInbound(r) == req[r].CtxSpan

\* the request span of request r is identified by r
SpanID(r) == r

HandlerCtx(r) == SpanID(r)

Resource(p) == IF p = NoProvider THEN "" ELSE provRes[p]

\* ----------------------------------------------------------------- Init
Init ==
  /\ variant \in Variants
  /\ serviceName = ""
  /\ globalProvider = NoProvider
  /\ delegate = NoProvider
  /\ provRes = << >>
  /\ initPc = "idle"
  /\ initArg = ""
  /\ initCalls = 0
  /\ initPre = [provider |-> NoProvider, serviceName |-> ""]
  /\ initResult = "none"
  /\ initNames = << >>
  /\ wrapped = FALSE
  /\ mwTracer = NoProvider
  /\ wrapGen = 0
  /\ pc = [r \in Reqs |-> "idle"]
  /\ req = [r \in Reqs |-> NoRequest]
  /\ span = [r \in Reqs |-> NoSpanRec]
  /\ nStarted = [r \in Reqs |-> 0]
  /\ nEnded = [r \in Reqs |-> 0]
  /\ resp = [r \in Reqs |-> NewResp]
  /\ bare = [r \in Reqs |-> NewWriter]
  /\ hcalls = [r \in Reqs |-> 0]
  /\ hctx = [r \in Reqs |-> NoSpan]
  /\ child = [r \in Reqs |-> NoChild]

\* ----------------------------------------------------------- InitTracer
\* entry of InitTracer(serviceName, endpoint)
InitTracerCall(n) ==
  /\ initPc = "idle"
  /\ initCalls < MaxInitCalls
  /\ n = ServiceNames[initCalls + 1]
  /\ initCalls' = initCalls + 1
  /\ initArg' = n
  /\ initPre' = [provider |-> globalProvider, serviceName |-> serviceName]
  /\ initResult' = "none"
  /\ initPc' = IF variant = "otlp" THEN "write" ELSE "exporter"
  /\ UNCHANGED <<variant, serviceName, globalProvider, delegate, provRes,
                 initNames, wrapVars, reqVars>>

\* serviceName = serviceNameParam
InitWriteName ==
  /\ initPc = "write"
  /\ serviceName' = initArg
  /\ initPc' = "exporter"
  /\ UNCHANGED <<variant, globalProvider, delegate, provRes, initArg,
                 initCalls, initPre, initResult, initNames, wrapVars, reqVars>>

\* jaeger.New / otlptracehttp.New, and panic(err) when it fails
InitExporter(ok) ==
  /\ initPc = "exporter"
  /\ initPc' = IF ok THEN "resource" ELSE "idle"
  /\ initResult' = IF ok THEN initResult ELSE "panic"
  /\ UNCHANGED <<variant, serviceName, globalProvider, delegate, provRes,
                 initArg, initCalls, initPre, initNames, wrapVars, reqVars>>

\* resource.New, and panic(err) when it fails
InitResource(ok) ==
  /\ initPc = "resource"
  /\ initPc' = IF ok THEN "install" ELSE "idle"
  /\ initResult' = IF ok THEN initResult ELSE "panic"
  /\ UNCHANGED <<variant, serviceName, globalProvider, delegate, provRes,
                 initArg, initCalls, initPre, initNames, wrapVars, reqVars>>

\* the service name the resource is built from: the parameter in the jaeger
\* variant, the package-level variable in the otlp variant (only InitTracer
\* writes it, so it still holds what InitWriteName wrote)
ResourceName == IF variant = "jaeger" THEN initArg ELSE serviceName

\* sdktrace.NewTracerProvider, otel.SetTracerProvider, return provider.Shutdown
InitInstall ==
  /\ initPc = "install"
  /\ provRes' = Append(provRes, ResourceName)
  /\ globalProvider' = Len(provRes) + 1
  /\ delegate' = IF delegate = NoProvider THEN Len(provRes) + 1 ELSE delegate
  /\ initNames' = Append(initNames, initArg)
  /\ initResult' = "ok"
  /\ initPc' = "idle"
  /\ UNCHANGED <<variant, serviceName, initArg, initCalls, initPre, wrapVars,
                 reqVars>>

\* ------------------------------------------------------------ middleware
\* Middleware(next) / HTTPMiddleware(next): Middleware asks for its tracer here
Wrap ==
  /\ ~wrapped
  /\ wrapped' = TRUE
  /\ mwTracer' = IF variant = "jaeger" THEN OtelTracer ELSE mwTracer
  /\ wrapGen' = Len(initNames)
  /\ UNCHANGED <<variant, initVars, reqVars>>

\* the server calls the returned handler: start := time.Now()
Serve(r, q) ==
  /\ wrapped
  /\ pc[r] = "idle"
  /\ \A r2 \in Reqs : r2 < r => pc[r2] # "idle"
  /\ req' = [req EXCEPT ![r] = q]
  /\ pc' = [pc EXCEPT ![r] = "start"]
  /\ UNCHANGED <<variant, initVars, wrapVars, span, nStarted, nEnded, resp,
                 bare, hcalls, hctx, child>>

\* the values a read of serviceName may return: the read is not synchronised
\* with InitTracer's write, so while that write is in progress it may return
\* the old string, the new one, or a mix of the two
ReadServiceName ==
  IF initPc = "write" THEN {serviceName, initArg, TornName} ELSE {serviceName}

\* the name the tracer is asked for
TracerNames == IF variant = "jaeger" THEN {"http-server"} ELSE ReadServiceName

\* ctx, span := tracer.Start(r.Context(), name); defer span.End()
StartSpan(r) ==
  /\ pc[r] = "start"
  /\ \E tn \in TracerNames :
       span' = [span EXCEPT ![r] =
                  [name |-> SpanName(req[r]), attrs |-> NoAttrs,
                   prov |-> TracerProvider(RequestTracer), tracerName |-> tn,
                   parent |-> req[r].CtxSpan, gen |-> Len(initNames),
                   started |-> TRUE, ended |-> FALSE]]
  /\ nStarted' = [nStarted EXCEPT ![r] = @ + 1]
  /\ pc' = [pc EXCEPT ![r] = "attrs"]
  /\ UNCHANGED <<variant, initVars, wrapVars, req, nEnded, resp, bare, hcalls, hctx, child>>

SetCommonAttributesSkipped(r) ==
  /\ pc[r] = "attrs"
  /\ pc' = [pc EXCEPT ![r] = "invoke"]
  /\ UNCHANGED <<variant, initVars, wrapVars, req, span, nStarted, nEnded,
                 resp, bare, hcalls, hctx, child>>

\* span.SetAttributes(method, target, request_id, client_ip)
SetCommonAttributes(r) ==
  /\ pc[r] = "attrs"
  /\ span' = [span EXCEPT ![r] = SetAttributes(@, CommonAttributes(req[r]))]
  /\ pc' = [pc EXCEPT ![r] = "invoke"]
  /\ UNCHANGED <<variant, initVars, wrapVars, req, nStarted, nEnded, resp,
                 bare, hcalls, hctx, child>>

\* ww := NewWrapResponseWriter(w, ...); next.ServeHTTP(ww, r.WithContext(ctx))
InvokeHandler(r) ==
  /\ pc[r] = "invoke"
  /\ resp' = [resp EXCEPT ![r] = NewResp]
  /\ hcalls' = [hcalls EXCEPT ![r] = @ + 1]
  /\ hctx' = [hctx EXCEPT ![r] = HandlerCtx(r)]
  /\ pc' = [pc EXCEPT ![r] = "handler"]
  /\ UNCHANGED <<variant, initVars, wrapVars, req, span, nStarted, nEnded,
                 bare, child>>

\* -------------------------------------------------- the wrapped handler
\* one call the handler makes while it runs: ww.WriteHeader(404),
\* ww.WriteHeader(500), ww.Write(body), or starting a span of its own from the
\* context of the request it was given
HandlerOps == {"header404", "header500", "write", "span"}

Scripts == UNION {[1..n -> HandlerOps] : n \in 0..MaxHandlerOps}

\* the state the handler works on: the wrapped writer, the server's writer
\* as it would be without the wrapper, and the span the handler started
RECURSIVE RunHandler(_, _, _)
RunHandler(r, st, script) ==
  IF script = << >> THEN st
  ELSE
    LET op == Head(script)
        nx == CASE op = "header404" ->
                     [st EXCEPT !.resp = WrapWriteHeader(@, 404),
                                !.bare = UnderWriteHeader(@, 404)]
                 [] op = "header500" ->
                     [st EXCEPT !.resp = WrapWriteHeader(@, 500),
                                !.bare = UnderWriteHeader(@, 500)]
                 [] op = "write" ->
                     [st EXCEPT !.resp = WrapWrite(@), !.bare = UnderWrite(@)]
                 [] op = "span" ->
                     [st EXCEPT !.child =
                        [started |-> TRUE, parent |-> hctx[r],
                         parentOpen |-> span[r].started /\ ~span[r].ended]]
    IN  RunHandler(r, nx, Tail(script))

\* next.ServeHTTP runs and returns (ok) or panics: a panic unwinds the
\* closure, running its deferred calls
Handler(r, script, ok) ==
  /\ pc[r] = "handler"
  /\ LET st == RunHandler(r, [resp |-> resp[r], bare |-> bare[r],
                              child |-> child[r]], script)
     IN  /\ resp' = [resp EXCEPT ![r] = st.resp]
         /\ bare' = [bare EXCEPT ![r] = st.bare]
         /\ child' = [child EXCEPT ![r] = st.child]
  /\ pc' = [pc EXCEPT ![r] = IF ok THEN "record" ELSE "unwind"]
  /\ UNCHANGED <<variant, initVars, wrapVars, req, span, nStarted, nEnded,
                 hcalls, hctx>>

\* ------------------------------------------------- after the handler
\* span.SetAttributes(status_code = ww.Status(), duration_ms = time.Since(start))
RecordStatus(r) ==
  /\ pc[r] = "record"
  /\ \E ms \in 0..MaxElapsedMs :
       span' = [span EXCEPT ![r] = SetAttributes(@, StatusAttributes(resp[r], ms))]
  /\ pc' = [pc EXCEPT ![r] = "defer"]
  /\ UNCHANGED <<variant, initVars, wrapVars, req, nStarted, nEnded, resp,
                 bare, hcalls, hctx, child>>

\* End called as a plain last statement: a panic skips it
SpanEndNotDeferred(r) ==
  /\ pc[r] \in {"defer", "unwind"}
  /\ span' = [span EXCEPT ![r].ended = (pc[r] = "defer") \/ @]
  /\ nEnded' = [nEnded EXCEPT ![r] = IF pc[r] = "defer" THEN @ + 1 ELSE @]
  /\ pc' = [pc EXCEPT ![r] = IF pc[r] = "defer" THEN "done" ELSE "panicked"]
  /\ UNCHANGED <<variant, initVars, wrapVars, req, nStarted, resp, bare, hcalls, hctx, child>>

\* the deferred span.End(): runs when the closure returns and when it unwinds;
\* a panic of the handler then goes on to the caller
SpanEnd(r) ==
  /\ pc[r] \in {"defer", "unwind"}
  /\ span' = [span EXCEPT ![r].ended = TRUE]
  /\ nEnded' = [nEnded EXCEPT ![r] = @ + 1]
  /\ pc' = [pc EXCEPT ![r] = IF pc[r] = "defer" THEN "done" ELSE "panicked"]
  /\ UNCHANGED <<variant, initVars, wrapVars, req, nStarted, resp, bare, hcalls, hctx, child>>

\* ------------------------------------------------------- specification
\* the names a call of InitTracer may pass
NextNames == {ServiceNames[i] : i \in DOMAIN ServiceNames}

\* The documented life cycle: the process calls InitTracer during startup
\* (more than once when it reconfigures tracing before it serves), and serves
\* requests, concurrently, once InitTracer is not running. A panic of
\* InitTracer is not recovered: it ends the process.
Next ==
  \/ /\ \A r \in Reqs : pc[r] = "idle"
     /\ initResult # "panic"
     /\ \E n \in NextNames : InitTracerCall(n)
  \/ InitWriteName
  \/ \E ok \in BOOLEAN : InitExporter(ok)
  \/ \E ok \in BOOLEAN : InitResource(ok)
  \/ InitInstall
  \/ Wrap
  \/ /\ initPc = "idle"
     /\ initResult # "panic"
     /\ \E r \in Reqs, q \in Requests : Serve(r, q)
  \/ \E r \in Reqs : StartSpan(r)
  \/ \E r \in Reqs : SetCommonAttributes(r)
  \/ \E r \in Reqs : InvokeHandler(r)
  \/ \E r \in Reqs, script \in Scripts, ok \in BOOLEAN : Handler(r, script, ok)
  \/ \E r \in Reqs : RecordStatus(r)
  \/ \E r \in Reqs : SpanEnd(r)

Spec == Init /\ [][Next]_vars

\* Tracing is (re)initialised while the server is serving: InitTracer runs in
\* its own thread at any time, concurrently with the requests, and its caller
\* recovers from its panics; the handlers write nothing.
ShortScripts == {sc \in Scripts : Len(sc) = 0}

NextLive ==
  \/ \E n \in NextNames : InitTracerCall(n)
  \/ InitWriteName
  \/ \E ok \in BOOLEAN : InitExporter(ok)
  \/ \E ok \in BOOLEAN : InitResource(ok)
  \/ InitInstall
  \/ Wrap
  \/ \E r \in Reqs, q \in Requests : Serve(r, q)
  \/ \E r \in Reqs : StartSpan(r)
  \/ \E r \in Reqs : SetCommonAttributes(r)
  \/ \E r \in Reqs : InvokeHandler(r)
  \/ \E r \in Reqs, script \in ShortScripts, ok \in BOOLEAN : Handler(r, script, ok)
  \/ \E r \in Reqs : RecordStatus(r)
  \/ \E r \in Reqs : SpanEnd(r)

SpecLive == Init /\ [][NextLive]_vars

\* =============================================================== claims
Finished(r) == pc[r] \in {"done", "panicked"}
HandlerOver(r) == pc[r] \in {"record", "defer", "unwind", "done", "panicked"}

\* C1: for every request exactly one span is started by the middleware and it
\* is ended exactly once, whether the handler returned (having written a
\* status, a body or nothing) or panicked out of ServeHTTP.
C1_OneSpanEndedOnce ==
  \A r \in Reqs :
    /\ nStarted[r] <= 1
    /\ nEnded[r] <= nStarted[r]
    /\ pc[r] \notin {"idle", "start"} => nStarted[r] = 1
    /\ Finished(r) => nEnded[r] = 1 /\ span[r].ended
    /\ ~Finished(r) => nEnded[r] = 0

C1_Witness ==
  \E r1, r2 \in Reqs :
    /\ pc[r1] = "panicked" /\ nStarted[r1] = 1 /\ nEnded[r1] = 1
    /\ pc[r2] = "done" /\ nStarted[r2] = 1 /\ nEnded[r2] = 1
    /\ ~bare[r2].wroteHeader

\* C2 (as claimed): once the handler has returned, http.status_code on the span
\* equals the status written to the response, and 200 when the handler wrote
\* no status (also when it wrote neither a header nor a body).
C2_StatusCodeOrDefault200 ==
  \A r \in Reqs :
    pc[r] \in {"defer", "done"} =>
      span[r].attrs["http.status_code"] =
        (IF resp[r].w.wroteHeader THEN resp[r].w.status ELSE StatusOK)

\* C3 (as claimed): whenever the span is ended, also after a panic of the
\* handler, it carries http.status_code and http.duration_ms.
C3_FinalizedOnEveryExit ==
  \A r \in Reqs : span[r].ended => Keys2 \subseteq DOMAIN span[r].attrs

\* the provider a span started after gen returned InitTracer calls comes from
\* when the middleware keeps the tracer it got when it wrapped the handler
BoundProvider(gen) ==
  IF variant = "otlp" \/ wrapGen = gen THEN gen
  ELSE IF wrapGen = 0 THEN 1 ELSE wrapGen

\* C4 (as claimed): every span created after two (or more) InitTracer calls
\* returned comes from the provider of the last of them and carries its
\* service name, whenever the middleware was wrapped.
C4_LastProviderForAllLaterSpans ==
  \A r \in Reqs :
    span[r].started /\ span[r].gen >= 2 =>
      /\ span[r].prov = span[r].gen
      /\ Resource(span[r].prov) = initNames[span[r].gen]

\* C4 (amended): every span created after two (or more) InitTracer calls
\* returned comes from the provider of the last of them, with its service
\* name, when it is created by StartSpan/HTTPMiddleware or by a Middleware
\* wrapped after that call; a Middleware wrapped earlier keeps producing spans
\* of the provider its tracer was bound to.
C4_LastProviderForLaterTracers ==
  \A r \in Reqs :
    span[r].started /\ span[r].gen >= 2 =>
      /\ span[r].prov = BoundProvider(span[r].gen)
      /\ Resource(span[r].prov) = initNames[BoundProvider(span[r].gen)]

C4_Witness ==
  \E r \in Reqs :
    /\ span[r].ended /\ span[r].gen = 2 /\ span[r].prov = 2
    /\ initNames = <<"svcA", "svcB">>
    /\ Resource(span[r].prov) = "svcB"

\* C5 (as claimed): when InitTracer panics (exporter or resource construction
\* failed) no provider is installed and the process-wide state, the global
\* provider and the package-level serviceName, is what it was before the call.
C5_PanicLeavesStateUntouched ==
  initResult = "panic" =>
    /\ globalProvider = initPre.provider
    /\ serviceName = initPre.serviceName

\* C6: the wrapped handler is invoked exactly once per request, and the status
\* delivered to the underlying response writer is the one the handler wrote:
\* the writer is in the state it would be in without the wrapper.
C6_HandlerOnceStatusUnaltered ==
  \A r \in Reqs :
    /\ hcalls[r] <= 1
    /\ pc[r] = "handler" \/ HandlerOver(r) => hcalls[r] = 1
    /\ resp[r].w = bare[r]
    /\ resp[r].ww.wroteHeader => resp[r].ww.code = bare[r].status

C6_Witness ==
  \E r1, r2 \in Reqs :
    /\ pc[r1] = "done" /\ hcalls[r1] = 1 /\ resp[r1].w.status = 404
    /\ pc[r2] = "done" /\ hcalls[r2] = 1 /\ resp[r2].w.status = 500

\* C7: when the handler has returned and the span is ended, the span is named
\* "<method> <path>" with the URL path only (no query string), spans of
\* requests with different paths have different names, and the span carries
\* the method, the path, the request id of the incoming context and the
\* remote address of its request.
C7_NameAndRequestAttributes ==
  /\ \A r \in Reqs :
       pc[r] = "done" =>
         /\ span[r].ended
         /\ req[r].Path = "/orders/42" => span[r].name = "GET /orders/42"
         /\ req[r].Path = "/orders/7" => span[r].name = "GET /orders/7"
         /\ span[r].attrs["http.method"] = req[r].Method
         /\ span[r].attrs["http.target"] = req[r].Path
         /\ span[r].attrs["http.request_id"] = req[r].ReqID
         /\ span[r].attrs["http.client_ip"] = req[r].RemoteAddr
  /\ \A r1, r2 \in Reqs :
       pc[r1] = "done" /\ pc[r2] = "done" /\ req[r1].Path # req[r2].Path =>
         span[r1].name # span[r2].name

C7_Witness ==
  \E r1, r2 \in Reqs :
    /\ pc[r1] = "done" /\ span[r1].name = "GET /orders/42"
    /\ span[r1].attrs["http.method"] = "GET"
    /\ span[r1].attrs["http.target"] = "/orders/42"
    /\ span[r1].attrs["http.request_id"] = "abc-123"
    /\ span[r1].attrs["http.client_ip"] = "10.0.0.5:1234"
    /\ span[r1].attrs["http.status_code"] = 404
    /\ pc[r2] = "done" /\ req[r2].RawQuery = "page=2"
    /\ span[r2].name = "GET /orders/7"

\* C8 (as claimed): request handling reads no process-wide variable while
\* another thread may be writing it (no request is about to read serviceName
\* in StartSpan while InitTracer is about to write it), and every ended span
\* carries the attributes of its own request only.
C8_NoSharedMutableState ==
  /\ \A r \in Reqs :
       ~(variant = "otlp" /\ initPc = "write" /\ pc[r] = "start")
  /\ \A r \in Reqs :
       span[r].ended =>
         \A k \in Keys4 : span[r].attrs[k] = CommonAttributes(req[r])[k]

\* C9: the steps of the middleware occur in order: while the handler runs the
\* span is open and carries exactly the four request attributes; the status
\* and duration are attached only after the handler returned, on a span that
\* carries the four; the span is ended last ...
C9_Order ==
  \A r \in Reqs :
    /\ pc[r] = "attrs" => span[r].started /\ DOMAIN span[r].attrs = {}
    /\ pc[r] \in {"invoke", "handler", "record", "unwind"} =>
         span[r].started /\ ~span[r].ended /\ DOMAIN span[r].attrs = Keys4
    /\ pc[r] = "defer" =>
         ~span[r].ended /\ DOMAIN span[r].attrs = Keys4 \cup Keys2
    /\ span[r].ended => Finished(r)
    /\ pc[r] \in {"idle", "start", "attrs", "invoke"} => hcalls[r] = 0

\* ... and no step changes a span that has ended.
C9_EndedImmutable ==
  \A r \in Reqs : span[r].ended => span'[r] = span[r]

C9_OrderedAndImmutable == []C9_Order /\ [][C9_EndedImmutable]_vars

C9_Witness ==
  \E r1, r2 \in Reqs :
    /\ pc[r1] = "handler" /\ ~span[r1].ended
    /\ DOMAIN span[r1].attrs = Keys4
    /\ pc[r2] = "done" /\ span[r2].ended
    /\ DOMAIN span[r2].attrs = Keys4 \cup Keys2

\* C10: the request span's parent is the span of the incoming context (none:
\* a root span); the handler is given the context that carries the request
\* span, so a span it starts from that context is a child of the request span,
\* and the request span is open while the handler runs.
C10_ParentAndChild ==
  \A r \in Reqs :
    /\ span[r].started => span[r].parent = req[r].CtxSpan
    /\ pc[r] = "handler" => hctx[r] = SpanID(r) /\ ~span[r].ended
    /\ child[r].started => child[r].parent = SpanID(r) /\ child[r].parentOpen

C10_Witness ==
  \E r1, r2 \in Reqs :
    /\ pc[r1] = "done" /\ span[r1].parent = RemoteParent
    /\ child[r1].started /\ child[r1].parent = SpanID(r1)
    /\ pc[r2] = "done" /\ span[r2].parent = NoSpan
    /\ child[r2].started /\ child[r2].parent = SpanID(r2)

====
